---- MODULE Spec2Model ----
(***************************************************************************)
(* Reminder-timer subsystem of src/server.js: the store of all reminders   *)
(* (allReminders), the armed set (activeReminders), the setTimeout timers  *)
(* with their async fire callbacks, and the three reminder endpoints.      *)
(*                                                                         *)
(* A request handler is synchronous and is one step.  The fire callback is *)
(* an async function: it runs up to the await of the SMS send in one step  *)
(* (Fire) and its continuation (catch / finally) in a later step           *)
(* (SendSettles); when the Twilio client is not initialised the callback   *)
(* throws before the await and runs to its end in the single Fire step.    *)
(***************************************************************************)
EXTENDS Integers, Sequences, FiniteSets, TLC

\* ---------------------------------------------------------------- bounds
MaxCreates == 3      \* create requests that write a record, per run
MaxClock == 1        \* Date.now() takes the values 0..MaxClock
MaxLiveCreates == 2  \* the same as MaxCreates, for the runs of LiveSpec

\* ---------------------------------------------------------------- inputs
Ids == {"r1", "r2"}
NoId == ""                       \* a request body without reminderId (falsy)
\* request bodies (medicineName, guardianPhone, time); a string is the
\* sequence of its characters, so the phones are "+1" and "1+"
Bodies ==
    { [medicineName |-> "aspirin", guardianPhone |-> <<"+", "1">>, time |-> "08:00"],
      [medicineName |-> "insulin", guardianPhone |-> <<"1", "+">>, time |-> "21:00"] }
\* an absent property; a timestamp is a sequence, so absence is the empty one
None == <<>>

VARIABLES
    twilioClient,     \* TRUE iff the Twilio client was initialised
    allReminders,     \* Map reminderId -> record, as its ordered entry list
    activeReminders,  \* Map reminderId -> timer info, as its ordered entry list
    timers,           \* every setTimeout ever made; the handle is the index
    outbox,           \* calls made to twilioClient.messages.create
    now,              \* the clock read by new Date()
    res,              \* the response of the last request
    attempts,         \* per timer: how often its callback entered the try block
    takenOk,          \* per id: markTaken returned 200 since the last create returned 200
    createLog,        \* ids of the create requests that wrote a record, in order
    users,            \* Map user id -> user, as its ordered entry list
    authRes,          \* the response of the last signup or login request
    signedUp          \* email and password of every signup that returned 201

authVars == <<users, authRes, signedUp>>

vars == <<twilioClient, allReminders, activeReminders, timers, outbox, now,
          res, attempts, takenOk, createLog, users, authRes, signedUp>>

\* ------------------------------------------------------------ JS helpers
includes(s, c) == \E i \in 1..Len(s) : s[i] = c

\* String.prototype.startsWith with a one-character search string
startsWith(s, c) == Len(s) >= 1 /\ s[1] = c

\* Date.prototype.toISOString: the text of an instant (injective)
toISOString(t) == <<"ISO", t>>

\* Map.prototype.has / get / set / delete on the ordered entry list
MapHas(m, k) == \E i \in 1..Len(m) : m[i].key = k

MapGet(m, k) == m[CHOOSE i \in 1..Len(m) : m[i].key = k].value

MapKeys(m) == [i \in 1..Len(m) |-> m[i].key]

MapSetMoveToEnd(m, k, v) ==
    Append(SelectSeq(m, LAMBDA e : e.key # k), [key |-> k, value |-> v])

MapSet(m, k, v) ==
    IF MapHas(m, k)
    THEN [i \in 1..Len(m) |-> IF m[i].key = k THEN [key |-> k, value |-> v] ELSE m[i]]
    ELSE Append(m, [key |-> k, value |-> v])

MapDeleteNothing(m, k) == m

MapDelete(m, k) == SelectSeq(m, LAMBDA e : e.key # k)

clearTimeoutAny(ts, h) == [ts EXCEPT ![h].state = "cleared"]

\* clearTimeout: a timer that has not fired yet never fires; otherwise a no-op
clearTimeout(ts, h) ==
    IF ts[h].state = "pending" THEN [ts EXCEPT ![h].state = "cleared"] ELSE ts

\* ------------------------------------------------------------ records
\* the record written by POST /api/reminders; takenAt is absent (None)
NewRecord(medicineName, guardianPhone, time, t) ==
    [medicineName |-> medicineName, guardianPhone |-> guardianPhone,
     time |-> time, status |-> "active", createdAt |-> toISOString(t),
     takenAt |-> None]

TakenRecordToggle(reminderData, t) ==
    [reminderData EXCEPT !.status = IF @ = "taken" THEN "active" ELSE "taken",
                         !.takenAt = toISOString(t)]

TakenRecordNoStamp(reminderData, t) == [reminderData EXCEPT !.status = "taken"]

\* the status update of POST /api/reminders/:reminderId/taken
TakenRecord(reminderData, t) ==
    [reminderData EXCEPT !.status = "taken", !.takenAt = toISOString(t)]

\* timerRef and the closure of the callback handed to setTimeout
NewTimer(reminderId, medicineName, guardianPhone, time) ==
    [reminderId |-> reminderId, medicineName |-> medicineName,
     guardianPhone |-> guardianPhone, time |-> time,
     state |-> "pending", triggered |-> FALSE]

\* the entry stored in activeReminders (its debug-only fields are left out)
TimerInfo(h, medicineName, guardianPhone, time) ==
    [timer |-> h, medicineName |-> medicineName,
     guardianPhone |-> guardianPhone, time |-> time]

MessageFromStore(h) ==
    LET r == MapGet(allReminders, timers[h].reminderId)
    IN  [timer |-> h, to |-> r.guardianPhone,
         medicineName |-> r.medicineName, time |-> r.time]

\* the arguments of twilioClient.messages.create, built from the closure
Message(h) ==
    [timer |-> h, to |-> timers[h].guardianPhone,
     medicineName |-> timers[h].medicineName, time |-> timers[h].time]

\* remindersArray of GET /api/reminders
remindersArray ==
    [i \in 1..Len(allReminders) |->
        [id |-> allReminders[i].key, data |-> allReminders[i].value]]

\* ------------------------------------------------------------ responses
NotFoundAs200(reminderId) ==
    [op |-> "taken", id |-> reminderId, status |-> 200, error |-> "Reminder not found"]

NotFoundResponse(reminderId) ==
    [op |-> "taken", id |-> reminderId, status |-> 404, error |-> "Reminder not found"]

\* ----------------------------------------------------------------- Init
Init ==
    /\ twilioClient \in BOOLEAN
    /\ allReminders = <<>>
    /\ activeReminders = <<>>
    /\ timers = <<>>
    /\ outbox = {}
    /\ now = 0
    /\ res = [op |-> "none", status |-> 0]
    /\ attempts = <<>>
    /\ takenOk = [i \in Ids |-> FALSE]
    /\ createLog = <<>>
    /\ users = <<>>
    /\ authRes = [op |-> "none", status |-> 0]
    /\ signedUp = {}

\* -------------------------------------------------------------- actions
\* the clock advances
Tick ==
    /\ now < MaxClock
    /\ now' = now + 1
    /\ UNCHANGED <<twilioClient, allReminders, activeReminders, timers, outbox,
                   res, attempts, takenOk, createLog>>
    /\ UNCHANGED authVars

\* POST /api/reminders without a reminderId
CreateMissingId ==
    /\ res' = [op |-> "create", id |-> NoId, status |-> 400,
               error |-> "Missing reminder ID"]
    /\ UNCHANGED <<twilioClient, allReminders, activeReminders, timers, outbox,
                   now, attempts, takenOk, createLog>>
    /\ UNCHANGED authVars

\* POST /api/reminders with a guardianPhone that fails the format check:
\* the record is written first, then the handler returns 400
CreateInvalidPhone(reminderId, medicineName, guardianPhone, time) ==
    /\ Len(createLog) < MaxCreates
    /\ ~startsWith(guardianPhone, "+")
    /\ allReminders' = MapSet(allReminders, reminderId,
                              NewRecord(medicineName, guardianPhone, time, now))
    /\ createLog' = Append(createLog, reminderId)
    /\ res' = [op |-> "create", id |-> reminderId, status |-> 400,
               error |-> "Invalid phone number format"]
    /\ UNCHANGED <<twilioClient, activeReminders, timers, outbox, now,
                   attempts, takenOk>>
    /\ UNCHANGED authVars

\* POST /api/reminders with a valid phone: write the record, clear the timer
\* of the existing armed entry, set a new timer, store the armed entry
CreateArm(reminderId, medicineName, guardianPhone, time) ==
    /\ Len(createLog) < MaxCreates
    /\ startsWith(guardianPhone, "+")
    /\ allReminders' = MapSet(allReminders, reminderId,
                              NewRecord(medicineName, guardianPhone, time, now))
    /\ createLog' = Append(createLog, reminderId)
    /\ LET cleared == IF MapHas(activeReminders, reminderId)
                      THEN clearTimeout(timers, MapGet(activeReminders, reminderId).timer)
                      ELSE timers
           h == Len(timers) + 1
       IN  /\ timers' = Append(cleared,
                               NewTimer(reminderId, medicineName, guardianPhone, time))
           /\ activeReminders' = MapSet(activeReminders, reminderId,
                                        TimerInfo(h, medicineName, guardianPhone, time))
    /\ attempts' = Append(attempts, 0)
    /\ takenOk' = [takenOk EXCEPT ![reminderId] = FALSE]
    /\ res' = [op |-> "create", id |-> reminderId, status |-> 200]
    /\ UNCHANGED <<twilioClient, outbox, now>>
    /\ UNCHANGED authVars

Create(reminderId, medicineName, guardianPhone, time) ==
    \/ CreateInvalidPhone(reminderId, medicineName, guardianPhone, time)
    \/ CreateArm(reminderId, medicineName, guardianPhone, time)

\* POST /api/reminders/:reminderId/taken for an id that is not in allReminders
MarkTakenNotFound(reminderId) ==
    /\ ~MapHas(allReminders, reminderId)
    /\ res' = NotFoundResponse(reminderId)
    /\ UNCHANGED <<twilioClient, allReminders, activeReminders, timers, outbox,
                   now, attempts, takenOk, createLog>>
    /\ UNCHANGED authVars

\* POST /api/reminders/:reminderId/taken for an id in allReminders
MarkTakenFound(reminderId) ==
    /\ MapHas(allReminders, reminderId)
    /\ LET reminderData == TakenRecord(MapGet(allReminders, reminderId), now)
       IN  /\ allReminders' = MapSet(allReminders, reminderId, reminderData)
           /\ res' = [op |-> "taken", id |-> reminderId, status |-> 200,
                      takenAt |-> reminderData.takenAt]
    /\ IF MapHas(activeReminders, reminderId)
       THEN /\ timers' = clearTimeout(timers, MapGet(activeReminders, reminderId).timer)
            /\ activeReminders' = MapDelete(activeReminders, reminderId)
       ELSE UNCHANGED <<timers, activeReminders>>
    /\ takenOk' = [takenOk EXCEPT ![reminderId] = TRUE]
    /\ UNCHANGED <<twilioClient, outbox, now, attempts, createLog>>
    /\ UNCHANGED authVars

MarkTaken(reminderId) ==
    \/ MarkTakenNotFound(reminderId)
    \/ MarkTakenFound(reminderId)

\* GET /api/reminders
ListReminders ==
    /\ res' = [op |-> "list", status |-> 200, body |-> remindersArray]
    /\ UNCHANGED <<twilioClient, allReminders, activeReminders, timers, outbox,
                   now, attempts, takenOk, createLog>>
    /\ UNCHANGED authVars

\* the timer's state once its callback has passed the triggered guard
MarkTriggeredForgets(t, st) == t

MarkTriggered(t, st) == [t EXCEPT !.triggered = TRUE, !.state = st]

\* setTimeout fires timer h: the callback runs up to the await of the send,
\* or to its end when the Twilio client is not initialised.  All timers have
\* the same TIMER_DURATION, so they come due in the order they were set.
Fire(h) ==
    /\ h \in 1..Len(timers)
    /\ timers[h].state = "pending"
    /\ \A g \in 1..(h - 1) : timers[g].state # "pending"
    /\ IF timers[h].triggered
       THEN /\ timers' = [timers EXCEPT ![h].state = "skipped"]
            /\ UNCHANGED <<activeReminders, outbox, attempts>>
       ELSE /\ attempts' = [attempts EXCEPT ![h] = @ + 1]
            /\ IF twilioClient
               THEN /\ timers' = [timers EXCEPT ![h] = MarkTriggered(@, "awaiting")]
                    /\ outbox' = outbox \cup {Message(h)}
                    /\ UNCHANGED activeReminders
               ELSE /\ timers' = [timers EXCEPT ![h] = MarkTriggered(@, "failed")]
                    /\ activeReminders' =
                           MapDelete(activeReminders, timers[h].reminderId)
                    /\ UNCHANGED outbox
    /\ UNCHANGED <<twilioClient, allReminders, now, res, takenOk, createLog>>
    /\ UNCHANGED authVars

\* the send of timer h resolves (ok) or rejects: log, then the finally block
SendSettles(h, ok) ==
    /\ h \in 1..Len(timers)
    /\ timers[h].state = "awaiting"
    /\ timers' = [timers EXCEPT ![h].state = IF ok THEN "sent" ELSE "failed"]
    /\ activeReminders' = MapDelete(activeReminders, timers[h].reminderId)
    /\ UNCHANGED <<twilioClient, allReminders, outbox, now, res, attempts,
                   takenOk, createLog>>
    /\ UNCHANGED authVars

Next ==
    \/ Tick
    \/ CreateMissingId
    \/ \E id \in Ids, b \in Bodies :
           Create(id, b.medicineName, b.guardianPhone, b.time)
    \/ \E id \in Ids : MarkTaken(id)
    \/ ListReminders
    \/ \E h \in 1..MaxCreates + 1 : Fire(h)
    \/ \E h \in 1..MaxCreates + 1, ok \in BOOLEAN : SendSettles(h, ok)

Spec == Init /\ [][Next]_vars

\* ---------------------------------------------------- claim vocabulary
\* timer h starts a notification attempt in this step
StartsAttempt(h) == attempts'[h] > attempts[h]

\* the ids of a log, each once, in the order of their first occurrence
FirstCreated(log) ==
    LET firsts == {i \in 1..Len(log) : \A j \in 1..(i - 1) : log[j] # log[i]}
        Rank(i) == Cardinality({j \in firsts : j <= i})
    IN  [n \in 1..Cardinality(firsts) |-> log[CHOOSE i \in firsts : Rank(i) = n]]

Status(id) == MapGet(allReminders, id).status

PendingTimers(id) ==
    {h \in 1..Len(timers) : timers[h].reminderId = id /\ timers[h].state = "pending"}

\* ---------------------------------------------------------------- claims

\* C1: once markTaken(id) has returned success, no notification attempt for
\* id starts afterwards, unless a later create for id has succeeded since.
C1_NoAttemptAfterTaken ==
    [][\A h \in 1..Len(timers) :
          StartsAttempt(h) => ~takenOk[timers[h].reminderId]]_vars

\* C2: after an id has been armed again, no timer set by an earlier create
\* for that id starts a notification attempt.
C2_OnlyLatestArmFires ==
    [][\A h \in 1..Len(timers) :
          StartsAttempt(h) =>
              \A g \in (h + 1)..Len(timers) :
                  timers[g].reminderId # timers[h].reminderId]_vars

\* C3: a timer makes no attempt while it is pending or cleared and exactly
\* one once it has fired; a markTaken that arrives while the send is awaited
\* leaves the attempts, the sent messages and the awaited send as they are.
C3_AtMostOnceAttempt ==
    /\ [](\A h \in 1..Len(timers) :
             attempts[h] = IF timers[h].state \in {"pending", "cleared"} THEN 0 ELSE 1)
    /\ [][\A id \in Ids :
             MarkTaken(id) =>
                 /\ attempts' = attempts
                 /\ outbox' = outbox
                 /\ \A h \in 1..Len(timers) :
                        timers[h].state = "awaiting" => timers'[h].state = "awaiting"]_vars

\* C3 witness: the only timer has fired and made its one attempt, its send
\* is still awaited, and the last request was a successful markTaken of its id.
C3_Witness ==
    /\ Len(timers) = 1
    /\ timers[1].state = "awaiting"
    /\ attempts[1] = 1
    /\ res.op = "taken" /\ res.status = 200 /\ res.id = timers[1].reminderId

\* C4: markTaken on a record whose status is already taken returns success
\* and leaves the record's takenAt unchanged.
C4_TakenAtNotOverwritten ==
    [][\A id \in Ids :
          (MapHas(allReminders, id) /\ MarkTaken(id) /\ Status(id) = "taken") =>
              /\ res'.status = 200
              /\ MapGet(allReminders', id).takenAt = MapGet(allReminders, id).takenAt]_vars

\* C5 as stated: once a record's status is taken it is never active again.
C5_StatusMonotonic ==
    [][\A id \in Ids :
          (MapHas(allReminders, id) /\ Status(id) = "taken") =>
              (MapHas(allReminders', id) /\ MapGet(allReminders', id).status = "taken")]_vars

\* C5 amended: a taken record stays taken through every step that is not a
\* create request for its id.
C5_TakenUntilRecreated ==
    [][\A id \in Ids :
          (/\ MapHas(allReminders, id) /\ Status(id) = "taken"
           /\ ~\E b \in Bodies : Create(id, b.medicineName, b.guardianPhone, b.time)) =>
              (MapHas(allReminders', id) /\ MapGet(allReminders', id).status = "taken")]_vars

\* C5 witness: a record was marked taken, a later create request for the
\* other id was served, and the record is still taken.
C5_Witness ==
    \E id \in Ids, other \in Ids :
        /\ id # other
        /\ createLog = <<id, other>>
        /\ res.op = "create" /\ res.id = other
        /\ Status(id) = "taken"

\* C6: a create whose guardianPhone does not start with '+' returns 400,
\* leaves an active record for the id in the store, and leaves the armed
\* set and every timer exactly as they were.
C6_InvalidPhoneCreate ==
    [][\A id \in Ids, b \in Bodies :
          (/\ Create(id, b.medicineName, b.guardianPhone, b.time)
           /\ (b.guardianPhone = <<>> \/ Head(b.guardianPhone) # "+")) =>
              /\ res'.status = 400
              /\ MapHas(allReminders', id)
              /\ MapGet(allReminders', id).status = "active"
              /\ MapGet(allReminders', id).guardianPhone = b.guardianPhone
              /\ activeReminders' = activeReminders
              /\ timers' = timers]_vars

\* C6 witness: a create with phone "1+" was rejected for an id whose earlier
\* timer is still pending and armed; its record is active with that phone.
C6_Witness ==
    \E id \in Ids :
        /\ res = [op |-> "create", id |-> id, status |-> 400,
                  error |-> "Invalid phone number format"]
        /\ MapGet(allReminders, id).guardianPhone = <<"1", "+">>
        /\ Status(id) = "active"
        /\ MapHas(activeReminders, id)
        /\ timers[MapGet(activeReminders, id).timer].state = "pending"

\* C7: the store lists every id ever created exactly once, in the order of
\* first creation, and the list response carries each record's current status.
C7_ListInCreationOrder ==
    /\ MapKeys(allReminders) = FirstCreated(createLog)
    /\ res.op = "list" =>
           /\ [i \in 1..Len(res.body) |-> res.body[i].id] = FirstCreated(createLog)
           /\ \A i \in 1..Len(res.body) :
                  res.body[i].data.status = Status(res.body[i].id)

\* C7 witness: an id was created, then another, then the first again; the
\* first was marked taken and the list was requested.
C7_Witness ==
    /\ Len(createLog) = 3
    /\ createLog[1] = createLog[3] /\ createLog[1] # createLog[2]
    /\ res.op = "list"
    /\ Len(res.body) = 2
    /\ res.body[1].data.status = "taken"
    /\ res.body[2].data.status = "active"

\* C8: markTaken on an id that is not in the store returns 404 and changes
\* nothing in the store, the armed set or the timers.
C8_MarkTakenNotFound ==
    [][\A id \in Ids :
          (MarkTaken(id) /\ ~MapHas(allReminders, id)) =>
              /\ res'.status = 404
              /\ allReminders' = allReminders
              /\ activeReminders' = activeReminders
              /\ timers' = timers
              /\ outbox' = outbox]_vars

\* C8 witness: a 404 was returned for an id that was never created while
\* another id is armed with a pending timer.
C8_Witness ==
    \E id \in Ids :
        /\ res.op = "taken" /\ res.status = 404 /\ res.id = id
        /\ ~MapHas(allReminders, id)
        /\ \E h \in 1..Len(timers) : timers[h].state = "pending"
        /\ Len(activeReminders) = 1

\* C9: for each id at most one timer is pending (neither fired nor cleared).
C9_AtMostOnePending ==
    \A id \in Ids : Cardinality(PendingTimers(id)) <= 1

\* C10: every id in the armed set is in the store with status active.
C10_ArmedImpliesActive ==
    \A i \in 1..Len(activeReminders) :
        /\ MapHas(allReminders, activeReminders[i].key)
        /\ Status(activeReminders[i].key) = "active"

\* C10 witness: one id is armed and active while the other was marked taken,
\* which cleared its timer and removed it from the armed set.
C10_Witness ==
    \E id \in Ids, other \in Ids :
        /\ MapHas(activeReminders, id) /\ Status(id) = "active"
        /\ MapHas(allReminders, other) /\ Status(other) = "taken"
        /\ ~MapHas(activeReminders, other)
        /\ \E h \in 1..Len(timers) :
               timers[h].reminderId = other /\ timers[h].state = "cleared"

\* some create or markTaken handler runs in this step
HandlerRuns ==
    \/ \E id \in Ids : MarkTaken(id)
    \/ \E id \in Ids, b \in Bodies :
           Create(id, b.medicineName, b.guardianPhone, b.time)

\* C11: no create or markTaken handler runs between the start of a fire's
\* notification attempt and that fire's removal of the armed entry, that is
\* while the send of some timer is awaited.
C11_FireIndivisible ==
    [][(\E h \in 1..Len(timers) : timers[h].state = "awaiting") => ~HandlerRuns]_vars

\* The steps of Next, with at most MaxLiveCreates record-writing creates
LiveNext ==
    \/ Tick
    \/ CreateMissingId
    \/ \E id \in Ids, b \in Bodies :
           /\ Len(createLog) < MaxLiveCreates
           /\ Create(id, b.medicineName, b.guardianPhone, b.time)
    \/ \E id \in Ids : MarkTaken(id)
    \/ ListReminders
    \/ \E h \in 1..MaxLiveCreates : Fire(h)
    \/ \E h \in 1..MaxLiveCreates, ok \in BOOLEAN : SendSettles(h, ok)

\* Every awaited send settles: the promise returned by messages.create
\* resolves or rejects, and the event loop then runs the continuation.
LiveSpec ==
    /\ Init
    /\ [][LiveNext]_vars
    /\ \A h \in 1..MaxLiveCreates : WF_vars(\E ok \in BOOLEAN : SendSettles(h, ok))

Armed(h) == MapHas(activeReminders, timers[h].reminderId)

Awaiting(h) == h \in 1..Len(timers) /\ timers[h].state = "awaiting"

Finalized(h) == h \in 1..Len(timers) /\ timers[h].state \in {"sent", "failed"}

\* C12: once a timer has fired, its fire is eventually finalized, whether
\* the send resolves, rejects or the client is disabled; the finalizing step
\* leaves the id out of the armed set, starts no further attempt, sends
\* nothing and leaves the last response and the store as they are.
C12_FiringFinalized ==
    /\ \A h \in 1..MaxLiveCreates : Awaiting(h) ~> Finalized(h)
    /\ [][\A h \in 1..Len(timers) :
             (StartsAttempt(h) /\ ~twilioClient) =>
                 /\ ~MapHas(activeReminders', timers[h].reminderId)
                 /\ timers'[h].state = "failed"
                 /\ UNCHANGED <<res, allReminders, outbox>>]_vars
    /\ [][\A h \in 1..Len(timers) :
             (timers[h].state = "awaiting" /\ timers'[h].state # "awaiting") =>
                 /\ timers'[h].state \in {"sent", "failed"}
                 /\ ~MapHas(activeReminders', timers[h].reminderId)
                 /\ UNCHANGED <<res, allReminders, outbox, attempts>>]_vars

\* C12 witness: with the client initialised, a timer's send was rejected;
\* its one attempt stays one, the id is out of the armed set and its record
\* is still active.
C12_Witness ==
    \E h \in 1..Len(timers) :
        /\ twilioClient
        /\ timers[h].state = "failed"
        /\ attempts[h] = 1
        /\ ~Armed(h)
        /\ Status(timers[h].reminderId) = "active"

\* the medicine name, guardian phone and time label held by a record
Payload(r) ==
    [medicineName |-> r.medicineName, guardianPhone |-> r.guardianPhone,
     time |-> r.time]

\* C13: every alert handed to the sink carries the medicine name, guardian
\* phone and time label of the create request that set its timer: a create
\* with a valid phone puts its body into the new timer, no later step
\* changes a timer's payload or a sent alert, and each alert equals its
\* timer's payload whatever the store record of the id says by then.
C13_AlertCarriesArmPayload ==
    /\ [](\A m \in outbox :
             /\ m.timer \in 1..Len(timers)
             /\ [medicineName |-> m.medicineName, guardianPhone |-> m.to,
                 time |-> m.time] = Payload(timers[m.timer]))
    /\ [][\A id \in Ids, b \in Bodies :
             (/\ Create(id, b.medicineName, b.guardianPhone, b.time)
              /\ b.guardianPhone # <<>> /\ Head(b.guardianPhone) = "+") =>
                 /\ Len(timers') = Len(timers) + 1
                 /\ timers'[Len(timers')].reminderId = id
                 /\ Payload(timers'[Len(timers')]) = b]_vars
    /\ [][/\ \A h \in 1..Len(timers) : Payload(timers'[h]) = Payload(timers[h])
          /\ outbox \subseteq outbox']_vars

\* C13 witness: an alert for "aspirin" to "+1" was sent by the timer that is
\* still armed for its id, while the store record of that id was replaced by
\* a rejected create for "insulin" with phone "1+".
C13_Witness ==
    \E m \in outbox :
        LET id == timers[m.timer].reminderId
        IN  /\ m.to = <<"+", "1">> /\ m.medicineName = "aspirin"
            /\ timers[m.timer].state = "awaiting"
            /\ MapHas(activeReminders, id)
            /\ MapGet(activeReminders, id).timer = m.timer
            /\ MapGet(allReminders, id).guardianPhone = <<"1", "+">>
            /\ MapGet(allReminders, id).medicineName = "insulin"

\* C14: the store holds one record per id; a record has a takenAt value
\* exactly when its status is taken; a create request replaces the whole
\* record of its id by an active one without takenAt.
C14_OneRecordTakenAtIffTaken ==
    /\ [](/\ \A i, j \in 1..Len(allReminders) :
                allReminders[i].key = allReminders[j].key => i = j
          /\ \A i \in 1..Len(allReminders) :
                allReminders[i].value.takenAt # None
                    <=> allReminders[i].value.status = "taken")
    /\ [][\A id \in Ids, b \in Bodies :
             Create(id, b.medicineName, b.guardianPhone, b.time) =>
                 MapGet(allReminders', id) =
                     [medicineName |-> b.medicineName,
                      guardianPhone |-> b.guardianPhone, time |-> b.time,
                      status |-> "active", createdAt |-> toISOString(now),
                      takenAt |-> None]]_vars

\* C14 witness: an id was armed, marked taken (which cleared its only timer)
\* and then created again with phone "1+": its one record is active again
\* and has no takenAt.
C14_Witness ==
    \E id \in Ids :
        /\ createLog = <<id, id>>
        /\ Len(timers) = 1 /\ timers[1].state = "cleared"
        /\ Len(allReminders) = 1
        /\ MapGet(allReminders, id).guardianPhone = <<"1", "+">>
        /\ Status(id) = "active"
        /\ MapGet(allReminders, id).takenAt = None

\* the id is out of the armed set and one of its timers has fired or was cleared
Terminal(id) ==
    /\ ~MapHas(activeReminders, id)
    /\ \E h \in 1..Len(timers) :
           /\ timers[h].reminderId = id
           /\ timers[h].state \in {"cleared", "sent", "failed"}

\* C15 as stated: once the timer of an id has fired or was cancelled, the id
\* is never armed again.
C15_TerminalNeverRearmed ==
    [][\A id \in Ids : Terminal(id) => ~MapHas(activeReminders', id)]_vars

\* C15 amended: each timer only moves pending -> fired or pending -> cleared
\* and then stays as it is; an id whose timer has fired or was cancelled is
\* armed again only by a create with a valid phone, and with a new timer.
C15_TimerLifecycle ==
    [][/\ \A h \in 1..Len(timers) :
             /\ timers[h].state = "pending" =>
                    timers'[h].state \in {"pending", "cleared", "awaiting", "failed"}
             /\ timers[h].state = "awaiting" =>
                    timers'[h].state \in {"awaiting", "sent", "failed"}
             /\ timers[h].state \in {"cleared", "sent", "failed"} =>
                    timers'[h] = timers[h]
       /\ \A id \in Ids :
             (Terminal(id) /\ MapHas(activeReminders', id)) =>
                 /\ \E b \in Bodies :
                        CreateArm(id, b.medicineName, b.guardianPhone, b.time)
                 /\ MapGet(activeReminders', id).timer = Len(timers) + 1
                 /\ timers'[Len(timers) + 1].state = "pending"]_vars

\* C15 witness: with the client disabled the first timer of an id fired and
\* was finalized; a later create armed the id again with a second timer.
C15_Witness ==
    /\ ~twilioClient
    /\ Len(timers) = 2
    /\ timers[1].reminderId = timers[2].reminderId
    /\ timers[1].state = "failed"
    /\ timers[2].state = "pending"
    /\ MapHas(activeReminders, timers[2].reminderId)
    /\ MapGet(activeReminders, timers[2].reminderId).timer = 2

\* C16: markTaken on an id that is in the store but not in the armed set
\* returns 200, sets the record's status to taken and leaves the armed set
\* and every timer as they are.
C16_MarkTakenUnarmed ==
    [][\A id \in Ids :
          (MarkTaken(id) /\ MapHas(allReminders, id) /\ ~MapHas(activeReminders, id)) =>
              /\ res'.op = "taken" /\ res'.id = id /\ res'.status = 200
              /\ MapGet(allReminders', id).status = "taken"
              /\ activeReminders' = activeReminders
              /\ timers' = timers]_vars

\* C16 witness: an id that was only ever created with phone "1+", so that no
\* timer was ever set, was marked taken with success.
C16_Witness ==
    \E id \in Ids :
        /\ res.op = "taken" /\ res.id = id /\ res.status = 200
        /\ Len(timers) = 0 /\ Len(activeReminders) = 0
        /\ MapGet(allReminders, id).guardianPhone = <<"1", "+">>
        /\ Status(id) = "taken"

\* ------------------------------------------------------ authentication
\* everything of the reminder subsystem
reminderVars ==
    <<twilioClient, allReminders, activeReminders, timers, outbox, res,
      attempts, takenOk, createLog>>

\* signup bodies {name, email, password, age, gender, patientName,
\* guardianPhone}; "" is a missing (falsy) field
SignupBody(name, email, password, guardianPhone) ==
    [name |-> name, email |-> email, password |-> password, age |-> 70,
     gender |-> "f", patientName |-> "Pat", guardianPhone |-> guardianPhone]

Emails == {"a@x", "b@x"}
Passwords == {"pw1", "pw2"}

SignupBodies ==
    {SignupBody("Ann", e, p, <<"+", "1">>) : e \in Emails, p \in Passwords}
        \cup {SignupBody("", "a@x", "pw1", <<"+", "1">>),
              SignupBody("Ann", "a@x", "pw1", <<"1", "+">>)}

\* !name || !email || !password || !age || !gender || !patientName || !guardianPhone
MissingField(b) ==
    \/ b.name = "" \/ b.email = "" \/ b.password = "" \/ b.age = 0
    \/ b.gender = "" \/ b.patientName = "" \/ b.guardianPhone = <<>>

\* Array.from(users.values()).some(user => user.email === email)
EmailRegistered(email) == \E i \in 1..Len(users) : users[i].value.email = email

\* Array.from(users.values()).find(u => u.email === email): its index, 0 if none
FindUser(email) ==
    IF EmailRegistered(email)
    THEN CHOOSE i \in 1..Len(users) :
             /\ users[i].value.email = email
             /\ \A j \in 1..(i - 1) : users[j].value.email # email
    ELSE 0

\* the user object of a signup served at clock t; its id is Date.now().toString()
NewUser(b, t) ==
    [id |-> ToString(t), name |-> b.name, email |-> b.email,
     password |-> b.password, age |-> b.age, gender |-> b.gender,
     patientName |-> b.patientName, guardianPhone |-> b.guardianPhone]

\* const { password: _, ...userWithoutPassword } = user
userWithoutPassword(user) == [f \in DOMAIN user \ {"password"} |-> user[f]]

\* jwt.sign({ userId }, JWT_SECRET, { expiresIn: '24h' }), issued at clock t
Token(userId, t) == [userId |-> userId, iat |-> t]

\* the status POST /api/auth/login returns for these credentials
LoginStatus(email, password) ==
    IF email = "" \/ password = "" THEN 400
    ELSE IF FindUser(email) = 0 THEN 401
    ELSE IF users[FindUser(email)].value.password # password THEN 401
    ELSE 200

\* POST /api/auth/signup rejected with 400: a missing field, a bad phone
\* format or an email that is already registered, checked in this order
SignupRejected(b) ==
    /\ \/ MissingField(b)
       \/ ~startsWith(b.guardianPhone, "+")
       \/ EmailRegistered(b.email)
    /\ authRes' = [op |-> "signup", status |-> 400,
                   message |-> IF MissingField(b) THEN "All fields are required"
                               ELSE IF ~startsWith(b.guardianPhone, "+")
                                    THEN "Phone number must start with + and country code"
                                    ELSE "Email already registered"]
    /\ UNCHANGED <<users, signedUp, now>>
    /\ UNCHANGED reminderVars

\* POST /api/auth/signup accepted: users.set(user.id, user) and 201
SignupCreated(b) ==
    /\ ~MissingField(b)
    /\ startsWith(b.guardianPhone, "+")
    /\ ~EmailRegistered(b.email)
    /\ LET user == NewUser(b, now)
       IN  /\ users' = MapSet(users, user.id, user)
           /\ authRes' = [op |-> "signup", status |-> 201,
                          user |-> userWithoutPassword(user),
                          token |-> Token(user.id, now)]
    /\ signedUp' = signedUp \cup {[email |-> b.email, password |-> b.password]}
    /\ UNCHANGED now
    /\ UNCHANGED reminderVars

Signup(b) == SignupRejected(b) \/ SignupCreated(b)

\* POST /api/auth/login
Login(email, password) ==
    /\ authRes' =
           IF LoginStatus(email, password) = 200
           THEN [op |-> "login", status |-> 200,
                 user |-> userWithoutPassword(users[FindUser(email)].value),
                 token |-> Token(users[FindUser(email)].value.id, now)]
           ELSE [op |-> "login", status |-> LoginStatus(email, password)]
    /\ UNCHANGED <<users, signedUp, now>>
    /\ UNCHANGED reminderVars

AuthNext ==
    \/ Tick
    \/ \E b \in SignupBodies : Signup(b)
    \/ \E e \in Emails \cup {""}, p \in Passwords : Login(e, p)

AuthSpec == Init /\ [][AuthNext]_vars

\* C17: no two stored users share an email, and a login with the email and
\* password of any signup that returned 201 returns 200.
C17_SignupsStayUsable ==
    /\ \A i, j \in 1..Len(users) :
           users[i].value.email = users[j].value.email => i = j
    /\ \A s \in signedUp : LoginStatus(s.email, s.password) = 200

====
